---- MODULE Spec2Model ----
(***************************************************************************)
(* A model of the categorisation and reconciliation engine of              *)
(* src/index.ts: the run loop over the statement files, the dedup cache,   *)
(* the withheld international transaction fees, the interactive            *)
(* categorisation prompts and the persistence at the end of a run.         *)
(*                                                                         *)
(* Every await of the program (a prompt waiting for a line of input) is a  *)
(* value of pc; an action is the code that runs from one await, or from    *)
(* the top of a loop iteration, to the next.                               *)
(***************************************************************************)
EXTENDS Integers, Sequences, FiniteSets, TLC

(* ------------------------------ bounds --------------------------------- *)

\* Total number of statement rows given to one run, over all its files.
MaxRows == 3
\* Dates of statement rows are the serial numbers 0..MaxDate.
MaxDate == 1
\* Number of lines the user types at the categorisation prompts of one run.
MaxAnswers == 5

(* ------------------------------ inputs --------------------------------- *)

\* currentDate before its first assignment (let currentDate: number | undefined).
Undefined == -1

FeeText == "INTNL TRANSACTION FEE"
ShopText == "COFFEE SHOP"

Dates == 0..MaxDate

\* The (Amount, Description) pairs of statement rows: a debit purchase, a
\* debit fee marker and a credit.
RowKinds == { <<-5, ShopText>>, <<-5, FeeText>>, <<7, ShopText>> }

Transactions ==
    { [Date |-> d, Amount |-> k[1], Description |-> k[2]] : d \in Dates, k \in RowKinds }

\* Lines the user may type at a category prompt, a regex prompt, a formula
\* prompt and a y/n prompt.
CategoryInputs == { "", "Groceries" }
RegexInputs == { "", "^COFFEE", "FEE$", "(" }
FormulaInputs == { "", "amount", "amount/" }
YesNoInputs == { "y", "n", "" }
\* Lines the user may type where a list of candidates is shown.
CandidateInputs == CategoryInputs \cup { "Pharmacy", "Dining" }

(* ------------------------- pure functions ------------------------------ *)

\* new RegExp(regex) throws a SyntaxError on a malformed pattern.
RegExpCompiles(r) == r # "("

\* new RegExp(regex).test(description), for the patterns of the model.
RegExpTest(r, description) ==
    CASE r = "^COFFEE" -> description = ShopText
      [] r = "SHOP"    -> description = ShopText
      [] r = "FEE$"    -> description = FeeText
      [] r = ""        -> TRUE
      [] OTHER         -> FALSE

\* IsIntlTransactionFee with a pattern that no description of a statement
\* matches.
IsIntlTransactionFeeNever(description) == FALSE

\* intlTransactionFee.test(description)
IsIntlTransactionFee(description) == description = FeeText

\* compile(formula) of ./expression-eval throws on text that is no expression.
Compiles(f) == f # "amount/"

transactionId(t) ==
    ToString(t.Date) \o ":" \o ToString(t.Amount) \o ":" \o t.Description

\* The object literal of categoriseTransaction for a freshly parsed transaction.
Extend(t) ==
    [ Date |-> t.Date, Amount |-> t.Amount, Description |-> t.Description,
      Category |-> "", Reimbursed |-> "",
      metadata |-> [ isDebit |-> t.Amount < 0,
                     isIntlTransactionFee |-> IsIntlTransactionFee(t.Description) ] ]

\* No transaction is being categorised.
NoTransaction ==
    [ Date |-> Undefined, Amount |-> 0, Description |-> "",
      Category |-> "", Reimbursed |-> "",
      metadata |-> [ isDebit |-> FALSE, isIntlTransactionFee |-> FALSE ] ]

RECURSIVE SortFrom(_, _)
SortFrom(s, d) ==
    IF d > MaxDate + 1 THEN << >>
    ELSE SelectSeq(s, LAMBDA t : t.Date = d) \o SortFrom(s, d + 1)

\* sheetData.sort by Date ascending; Array.prototype.sort is stable.
SortByDate(s) == SortFrom(s, 0)

(* --------------------------- the worksheets ---------------------------- *)

\* A data row of the Debit sheet, columns A..F.  Column D holds the formula
\* text with every "amount" replaced by ABS(C<newRow>): the pair of the text
\* and the row number it refers to; column E is the formula C<n>+D<n>.
DebitRow(t, newRow) ==
    << t.Category, t.Date, t.Amount,
       IF t.Reimbursed # "" THEN << t.Reimbursed, newRow >> ELSE << "", 0 >>,
       newRow, t.Description >>

\* A data row of the Credit sheet, columns A..D.
CreditRow(t) == << t.Category, t.Date, t.Amount, t.Description >>

\* Sheet row number of the i-th data row: row 1 is the header.
SheetRow(i) == i + 1

\* LoadedDebit reading the description from column A.
LoadedDebitWrongColumn(cells, row) ==
    [ Date |-> cells[2], Amount |-> cells[3], Description |-> cells[1],
      Category |-> cells[1],
      Reimbursed |-> IF cells[4][2] = row THEN cells[4][1] ELSE "",
      metadata |-> [ isDebit |-> cells[3] < 0, isIntlTransactionFee |-> FALSE ] ]

\* The transaction read back from row `row` of the Debit sheet.
LoadedDebit(cells, row) ==
    [ Date |-> cells[2], Amount |-> cells[3], Description |-> cells[6],
      Category |-> cells[1],
      Reimbursed |-> IF cells[4][2] = row THEN cells[4][1] ELSE "",
      metadata |-> [ isDebit |-> cells[3] < 0, isIntlTransactionFee |-> FALSE ] ]

\* The transaction read back from a row of the Credit sheet.
LoadedCredit(cells) ==
    [ Date |-> cells[2], Amount |-> cells[3], Description |-> cells[4],
      Category |-> cells[1], Reimbursed |-> "",
      metadata |-> [ isDebit |-> cells[3] < 0, isIntlTransactionFee |-> FALSE ] ]

\* The rows of the output workbook in the order run() caches them: the
\* Debit sheet, then the Credit sheet.
LoadedTransactions(wb) ==
    [ i \in 1..Len(wb.Debit) |-> LoadedDebit(wb.Debit[i], SheetRow(i)) ]
    \o [ i \in 1..Len(wb.Credit) |-> LoadedCredit(wb.Credit[i]) ]

\* createWorkbook(): two sheets holding only their header row.
createWorkbook == [ Debit |-> << >>, Credit |-> << >> ]

(* ----------------------------- dedup cache ----------------------------- *)

\* addToDateStore that adds a transaction only when it creates the bucket.
addToDateStoreFirstOnly(store, t) ==
    IF t.Date \in DOMAIN store THEN store ELSE store @@ (t.Date :> << t >>)

\* addToDateStore: the bucket of the date is created on first use.
addToDateStore(store, t) ==
    IF t.Date \in DOMAIN store
    THEN [ store EXCEPT ![t.Date] = Append(@, t) ]
    ELSE store @@ (t.Date :> << t >>)

\* CacheAll that records the identity keys only and leaves the date index
\* to the transactions of the session.
CacheIdsOnly(ts, ids, store) ==
    [ ids |-> ids \cup { transactionId(ts[i]) : i \in DOMAIN ts }, store |-> store ]

\* Lines 536-566: cacheTransaction of every row of the output workbook.
RECURSIVE CacheAll(_, _, _)
CacheAll(ts, ids, store) ==
    IF ts = << >> THEN [ ids |-> ids, store |-> store ]
    ELSE CacheAll(Tail(ts), ids \cup { transactionId(Head(ts)) },
                  addToDateStore(store, Head(ts)))

EmptyStore == [ d \in {} |-> << >> ]

(* ------------------------------ registry ------------------------------- *)

\* A namespace (config.debitCategories, config.creditCategories) is an
\* object whose keys iterate in insertion order: the sequence of its
\* CategoryDefinitions.  reimbursementFormula "" is an absent formula.
CategoryDefinition(n, ms, f) == [ name |-> n, matches |-> ms, reimbursementFormula |-> f ]

\* Object.keys(categories)
Names(cats) == { cats[i].name : i \in DOMAIN cats }

\* categories[name], for a name that is a key
Lookup(cats, n) == cats[CHOOSE i \in DOMAIN cats : cats[i].name = n]

\* categories[name]?.reimbursementFormula
FormulaOf(cats, n) == IF n \in Names(cats) THEN Lookup(cats, n).reimbursementFormula ELSE ""

\* const categories = isDebit ? config.debitCategories : config.creditCategories
Categories(cfg, t) ==
    IF t.metadata.isDebit THEN cfg.debitCategories ELSE cfg.creditCategories

\* WithCategories that stores every namespace as the debit one.
WithCategoriesDebit(cfg, t, cats) == [ cfg EXCEPT !.debitCategories = cats ]

\* cfg with the namespace of t's sign replaced by cats.
WithCategories(cfg, t, cats) ==
    IF t.metadata.isDebit THEN [ cfg EXCEPT !.debitCategories = cats ]
    ELSE [ cfg EXCEPT !.creditCategories = cats ]

\* Number of patterns of category c that match the description.
Hits(c, description) ==
    Len(SelectSeq(c.matches, LAMBDA r : RegExpTest(r, description)))

RECURSIVE FindMatches(_, _)
\* The loop over categories and their regexps: the name is pushed once for
\* every pattern that matches.
FindMatches(cats, description) ==
    IF cats = << >> THEN << >>
    ELSE [ i \in 1..Hits(Head(cats), description) |-> Head(cats).name ]
         \o FindMatches(Tail(cats), description)

\* Index of the category named n.
IndexOf(cats, n) == CHOOSE i \in DOMAIN cats : cats[i].name = n

\* AddCategory that drops the regex.
AddCategoryWithoutPattern(cats, n, regex) ==
    Append(cats, CategoryDefinition(n, << >>, ""))

\* Lines 452-456: categories[name] = { name, matches: regex ? [regex] : [] }
AddCategory(cats, n, regex) ==
    Append(cats, CategoryDefinition(n, IF regex # "" THEN << regex >> ELSE << >>, ""))

\* AddPattern that leaves the pattern list of the category as it was.
AddPatternDropped(cats, n, regex) == cats

\* Lines 471-472: categories[name].matches.push(regex)
AddPattern(cats, n, regex) ==
    [ cats EXCEPT ![IndexOf(cats, n)].matches = Append(@, regex) ]

\* Line 462: categories[name].reimbursementFormula = formula
SetFormula(cats, n, f) ==
    [ cats EXCEPT ![IndexOf(cats, n)].reimbursementFormula = f ]

\* The elements of a sequence.
Range(s) == { s[i] : i \in DOMAIN s }

\* The config.json files a run may start from.
InitialConfigs ==
    { [ debitCategories |-> << >>, creditCategories |-> << >> ],
      [ debitCategories |-> << CategoryDefinition("Groceries", << "^COFFEE", "SHOP" >>, "amount/2") >>,
        creditCategories |-> << >> ],
      [ debitCategories |-> << CategoryDefinition("Groceries", << "^COFFEE" >>, ""),
                               CategoryDefinition("Pharmacy", << "SHOP" >>, "") >>,
        creditCategories |-> << CategoryDefinition("Groceries", << "SHOP" >>, "amount/2") >> ] }

\* The output workbooks a run may start from: none on disk (a fresh one is
\* created), or one written by an earlier run.
InitialWorkbooks ==
    { createWorkbook,
      [ Debit |-> << DebitRow([ Extend([ Date |-> 1, Amount |-> -5, Description |-> ShopText ])
                                 EXCEPT !.Category = "Groceries" ], 2) >>,
        Credit |-> << >> ] }

\* The statement files of a run: at most MaxRows rows, in one file or cut
\* into two non-empty files.
RowLists == UNION { [ 1..n -> Transactions ] : n \in 1..MaxRows }

FileLists ==
    { << rows >> : rows \in RowLists }
    \cup UNION { { << SubSeq(rows, 1, k), SubSeq(rows, k + 1, Len(rows)) >> :
                     k \in 1..(Len(rows) - 1) } : rows \in RowLists }

(* ------------------------------- state --------------------------------- *)

VARIABLES
    files,                  \* the statement files of argv, rows in file order
    diskConfig,             \* config.json on disk
    diskWorkbook,           \* the output workbook on disk
    runNo,                  \* 1 for the first run over files, 2 for the second
    config,                 \* context.config: the two category namespaces
    configChanged,          \* context.configChanged, the dirty flag
    workbook,               \* context.workbook: data rows of both sheets
    debitsAdded,            \* context.debitsAdded
    creditsAdded,           \* context.creditsAdded
    existingTransactions,   \* context.existingTransactions: identity keys
    dateTransactions,       \* context.dateTransactions: date -> transactions
    intlTransactionFees,    \* context.intlTransactionFees, in insertion order
    currentDate,            \* run(): let currentDate
    fileIdx,                \* run(): position of `for (const workbook of files)`
    sheetData,              \* run(): the sorted rows of the current file
    rowIdx,                 \* run(): position of `for (const transaction of sheetData)`
    flushIdx,               \* run(): position of `for (const intlTransaction of ...)`
    pc,                     \* the point the program is at
    frame,                  \* the locals of the latest categoriseTransaction
    wroteWorkbook,          \* run() called writeWorkbook at its end
    wroteConfig,            \* run() called saveConfig at its end
    answers                 \* lines typed at the prompts of the categorisation

diskVars == << files, diskConfig, diskWorkbook, runNo, wroteWorkbook, wroteConfig >>
loopVars == << diskVars, answers >>
ledgerVars == << workbook, debitsAdded, creditsAdded, existingTransactions, dateTransactions >>
configVars == << config, configChanged >>
fileVars == << currentDate, fileIdx, sheetData >>

vars == << files, diskConfig, diskWorkbook, runNo, config, configChanged, workbook,
           debitsAdded, creditsAdded, existingTransactions, dateTransactions,
           intlTransactionFees, currentDate, fileIdx, sheetData, rowIdx, flushIdx,
           pc, frame, wroteWorkbook, wroteConfig, answers >>

\* `let input: string = undefined` before a prompt loop.
NoInput == "<undefined>"

\* The locals of categoriseTransaction.  route, entry and returned record
\* history: the branch that settled the category ("" while unsettled), the
\* registry and dirty flag at the call, and whether the call has returned.
NoFrame ==
    [ extendedTransaction |-> NoTransaction, passedExtendedTransaction |-> FALSE,
      matches |-> << >>, input |-> NoInput, regex |-> "", formula |-> "",
      route |-> "", entry |-> << >>, returned |-> FALSE ]

NewFrame(t, passed) ==
    [ NoFrame EXCEPT !.extendedTransaction = t, !.passedExtendedTransaction = passed,
                     !.entry = << config, configChanged >> ]

\* The points where categoriseTransaction awaits a line of input.
Prompts ==
    { "intlPrompt", "multiPrompt", "categoryPrompt", "regexNew", "regexAdd",
      "formulaNew", "formulaConfirm", "saveFormula", "validateConfirm",
      "validateFormula" }

\* run(), lines 502-566 and 569: the context built from the files on disk,
\* with every row of the output workbook cached.
Startup(cfg, wb) ==
    LET cached == CacheAll(LoadedTransactions(wb), {}, EmptyStore) IN
    [ config |-> cfg, configChanged |-> FALSE, workbook |-> wb,
      debitsAdded |-> 0, creditsAdded |-> 0,
      existingTransactions |-> cached.ids, dateTransactions |-> cached.store,
      intlTransactionFees |-> << >>, currentDate |-> Undefined ]

Init ==
    /\ files \in FileLists
    /\ diskConfig \in InitialConfigs
    /\ diskWorkbook \in InitialWorkbooks
    /\ runNo = 1
    /\ LET c == Startup(diskConfig, diskWorkbook) IN
          /\ config = c.config
          /\ configChanged = c.configChanged
          /\ workbook = c.workbook
          /\ debitsAdded = c.debitsAdded
          /\ creditsAdded = c.creditsAdded
          /\ existingTransactions = c.existingTransactions
          /\ dateTransactions = c.dateTransactions
          /\ intlTransactionFees = c.intlTransactionFees
          /\ currentDate = c.currentDate
          /\ fileIdx = 1
          /\ sheetData = << >>
          /\ rowIdx = 0
          /\ flushIdx = 0
          /\ pc = "file"
          /\ frame = NoFrame
          /\ wroteWorkbook = FALSE
          /\ wroteConfig = FALSE
          /\ answers = 0

(* ------------------- addTransaction and its callers -------------------- *)

\* The transaction the run loop is at.
Transaction == sheetData[rowIdx]

\* The points where an uncaught exception ended the process: `new RegExp`
\* of line 306, `compile` of lines 322, 327, 334 and 340, `throw` of line 374.
Crashes == { "regexThrew", "compileThrew", "preconditionThrew" }

\* An uncaught exception ends the process at the point why.
Crash(why) ==
    /\ pc' = why
    /\ UNCHANGED << ledgerVars, intlTransactionFees, rowIdx, flushIdx, frame >>

\* The program stops at the await p with the locals fr.
Await(p, fr) ==
    /\ pc' = p
    /\ frame' = fr
    /\ UNCHANGED << ledgerVars, intlTransactionFees, rowIdx, flushIdx >>

\* addTransaction, lines 488-493: the row is appended to the sheet of the
\* transaction's sign and the transaction is cached.
Write(t) ==
    /\ IF t.metadata.isDebit
       THEN /\ workbook' = [ workbook EXCEPT
                               !.Debit = Append(@, DebitRow(t, SheetRow(Len(@) + 1))) ]
            /\ debitsAdded' = debitsAdded + 1
            /\ UNCHANGED creditsAdded
       ELSE /\ workbook' = [ workbook EXCEPT !.Credit = Append(@, CreditRow(t)) ]
            /\ creditsAdded' = creditsAdded + 1
            /\ UNCHANGED debitsAdded
    /\ existingTransactions' = existingTransactions \cup { transactionId(t) }
    /\ dateTransactions' = addToDateStore(dateTransactions, t)

\* categoriseTransaction returns fr.extendedTransaction with its category
\* settled: addTransaction writes it, and the loop that called it moves on.
Return(fr) ==
    /\ Write(fr.extendedTransaction)
    /\ frame' = [ fr EXCEPT !.returned = TRUE ]
    /\ IF fr.passedExtendedTransaction
       THEN /\ pc' = "flush"
            /\ flushIdx' = flushIdx + 1
            /\ intlTransactionFees' =
                   [ intlTransactionFees EXCEPT ![flushIdx] = fr.extendedTransaction ]
            /\ UNCHANGED rowIdx
       ELSE /\ pc' = "row"
            /\ rowIdx' = rowIdx + 1
            /\ UNCHANGED << intlTransactionFees, flushIdx >>

\* Validate that applies the saved formula without asking.
ValidateSilently(fr, f) ==
    Return([ fr EXCEPT !.extendedTransaction.Reimbursed = f ])

\* validateReimbursementForTransaction up to its first askYesNo: the saved
\* formula f is compiled and its value shown.
Validate(fr, f) ==
    IF Compiles(f) THEN Await("validateConfirm", [ fr EXCEPT !.formula = f ])
    ELSE Crash("compileThrew")

\* Single that leaves the category of the transaction unassigned.
SingleUnassigned(fr, cfg) ==
    LET t == fr.extendedTransaction
        f == FormulaOf(Categories(cfg, t), fr.matches[1])
    IN  IF f # "" THEN Validate(fr, f) ELSE Return(fr)

\* Lines 429-435: a single category is assigned, and its saved formula, if
\* any, is validated.
Single(fr, cfg) ==
    LET t == [ fr.extendedTransaction EXCEPT !.Category = fr.matches[1] ]
        f == FormulaOf(Categories(cfg, t), t.Category)
        g == [ fr EXCEPT !.extendedTransaction = t ]
    IN  IF f # "" THEN Validate(g, f) ELSE Return(g)

\* Lines 408-447 once fr.matches is known, up to the next await.
Resolve(fr, cfg) ==
    IF Len(fr.matches) > 1 THEN Await("multiPrompt", [ fr EXCEPT !.input = NoInput ])
    ELSE IF Len(fr.matches) = 1 THEN Single(fr, cfg)
    ELSE Await("categoryPrompt", [ fr EXCEPT !.route = "zero" ])

(* ------------------------------ run loop ------------------------------- *)

\* !currentDate
Falsy(d) == d = Undefined \/ d = 0

\* Lines 570-594: the next file is read and sorted.
StartFile ==
    /\ pc = "file"
    /\ fileIdx <= Len(files)
    /\ sheetData' = SortByDate(files[fileIdx])
    /\ currentDate' = IF Falsy(currentDate) THEN sheetData'[1].Date ELSE currentDate
    /\ rowIdx' = 1
    /\ pc' = "row"
    /\ UNCHANGED << loopVars, configVars, ledgerVars, intlTransactionFees, fileIdx,
                    flushIdx, frame >>

\* The rows of the file are exhausted.
EndOfFile ==
    /\ pc = "row"
    /\ rowIdx > Len(sheetData)
    /\ fileIdx' = fileIdx + 1
    /\ pc' = "file"
    /\ UNCHANGED << loopVars, configVars, ledgerVars, intlTransactionFees, currentDate,
                    sheetData, rowIdx, flushIdx, frame >>

\* True when the date check of line 596 starts a flush.
StartsFlush(t, date, fees) == t.Date # date /\ fees # << >>

\* Lines 596-605 up to the first flushed fee or the dedup check.
CheckDate ==
    /\ pc = "row"
    /\ rowIdx <= Len(sheetData)
    /\ IF StartsFlush(Transaction, currentDate, intlTransactionFees)
       THEN /\ pc' = "flush"
            /\ flushIdx' = 1
            /\ UNCHANGED currentDate
       ELSE /\ pc' = "dedup"
            /\ currentDate' = Transaction.Date
            /\ UNCHANGED flushIdx
    /\ UNCHANGED << loopVars, configVars, ledgerVars, intlTransactionFees, fileIdx,
                    sheetData, rowIdx, frame >>

\* Line 600: addTransaction of the next withheld fee, up to its first await.
FlushFee ==
    /\ pc = "flush"
    /\ flushIdx <= Len(intlTransactionFees)
    /\ LET fee == intlTransactionFees[flushIdx]
           fr == NewFrame(fee, TRUE)
       IN  IF ~fee.metadata.isIntlTransactionFee \/ fee.Category # ""
           THEN Crash("preconditionThrew")
           ELSE IF fee.Date \in DOMAIN dateTransactions
           THEN Await("intlPrompt", fr)
           ELSE Resolve(fr, config)
    /\ UNCHANGED << loopVars, configVars, fileVars >>

\* Cleared that leaves the flushed fees in the set.
ClearedNot(fees) == fees

\* Line 602: context.intlTransactionFees.clear()
Cleared(fees) == << >>

\* Lines 602-604: every fee was flushed.
FlushDone ==
    /\ pc = "flush"
    /\ flushIdx > Len(intlTransactionFees)
    /\ intlTransactionFees' = Cleared(intlTransactionFees)
    /\ currentDate' = Transaction.Date
    /\ flushIdx' = 0
    /\ pc' = "dedup"
    /\ UNCHANGED << loopVars, configVars, ledgerVars, fileIdx, sheetData, rowIdx, frame >>

\* Line 606: the transaction is already in the dedup cache.
SkipDuplicate ==
    /\ pc = "dedup"
    /\ transactionId(Transaction) \in existingTransactions
    /\ rowIdx' = rowIdx + 1
    /\ pc' = "row"
    /\ UNCHANGED << loopVars, configVars, ledgerVars, intlTransactionFees, fileVars,
                    flushIdx, frame >>

\* Lines 607, 361-363 and 485-486: a fresh fee marker is withheld.
WithholdFee ==
    /\ pc = "dedup"
    /\ transactionId(Transaction) \notin existingTransactions
    /\ Extend(Transaction).metadata.isIntlTransactionFee
    /\ intlTransactionFees' = Append(intlTransactionFees, Extend(Transaction))
    /\ rowIdx' = rowIdx + 1
    /\ pc' = "row"
    /\ UNCHANGED << loopVars, configVars, ledgerVars, fileVars, flushIdx, frame >>

\* Lines 607 and 365-447: a fresh transaction is matched against the
\* patterns of its namespace, up to the first await.
Categorise ==
    /\ pc = "dedup"
    /\ transactionId(Transaction) \notin existingTransactions
    /\ ~Extend(Transaction).metadata.isIntlTransactionFee
    /\ LET t == Extend(Transaction)
           ms == FindMatches(Categories(config, t), t.Description)
       IN  Resolve([ NewFrame(t, FALSE) EXCEPT
                       !.matches = ms,
                       !.route = IF Len(ms) = 1 THEN "single" ELSE "" ], config)
    /\ UNCHANGED << loopVars, configVars, fileVars >>

(* ------------------------------ prompts -------------------------------- *)

\* The user types one more line.
Typed ==
    /\ answers < MaxAnswers
    /\ answers' = answers + 1

\* Line 378: the categories of the transactions cached for the fee's date.
RelatedCategories(date) == { t.Category : t \in Range(dateTransactions[date]) }

\* PromptsAgain that takes any non-blank line.
PromptsAgainNever(in, candidates) == FALSE

\* The loop condition of lines 386 and 418: the prompt is shown again.
PromptsAgain(in, candidates) == in # "" /\ in \notin candidates

\* Lines 393-396 and 424-427: the matches left by the answer.
Chosen(in) == IF in # "" THEN << in >> ELSE << >>

\* Lines 386-397: a line typed at 'Enter matching category or empty line to
\* assign to new'.
AnswerIntl ==
    /\ pc = "intlPrompt"
    /\ \E in \in CandidateInputs :
          IF PromptsAgain(in, RelatedCategories(frame.extendedTransaction.Date))
          THEN Await("intlPrompt", [ frame EXCEPT !.input = in ])
          ELSE Resolve([ frame EXCEPT !.input = in, !.matches = Chosen(in),
                                      !.route = IF in # "" THEN "attached" ELSE "" ],
                       config)
    /\ Typed
    /\ UNCHANGED << diskVars, configVars, fileVars >>

\* Lines 418-428: a line typed at 'Enter matching category or empty line to
\* create new category'.
AnswerMultiple ==
    /\ pc = "multiPrompt"
    /\ \E in \in CandidateInputs :
          IF PromptsAgain(in, Range(frame.matches))
          THEN Await("multiPrompt", [ frame EXCEPT !.input = in ])
          ELSE Resolve([ frame EXCEPT !.input = in, !.matches = Chosen(in),
                                      !.route = IF in # "" THEN "chosen" ELSE "" ],
                       config)
    /\ Typed
    /\ UNCHANGED << diskVars, configVars, fileVars >>

\* Lines 447-450 and 468: a line typed at 'Category for above transaction',
\* up to the regex prompt.
AnswerCategory ==
    /\ pc = "categoryPrompt"
    /\ \E in \in CategoryInputs :
          LET t == [ frame.extendedTransaction EXCEPT !.Category = in ]
              fr == [ frame EXCEPT !.extendedTransaction = t ]
          IN  IF in \notin Names(Categories(config, t))
              THEN Await("regexNew", fr)
              ELSE Await("regexAdd", fr)
    /\ Typed
    /\ UNCHANGED << diskVars, configVars, fileVars >>

\* getRegexForDescription: "accept" when the line ends the prompt with a
\* regex (or none, ""), "again" when it is asked again, "throw" when
\* new RegExp throws.
RegexAnswer(in, description) ==
    IF in = "" THEN "accept"
    ELSE IF ~RegExpCompiles(in) THEN "throw"
    ELSE IF RegExpTest(in, description) THEN "accept"
    ELSE "again"

\* Lines 450-458: a line typed at 'Regex for <new category>'; on return the
\* category is created, up to the formula prompt.
AnswerRegexNew ==
    /\ pc = "regexNew"
    /\ \E in \in RegexInputs :
          LET t == frame.extendedTransaction
              answer == RegexAnswer(in, t.Description)
          IN  CASE answer = "throw" -> Crash("regexThrew") /\ UNCHANGED configVars
                [] answer = "again" -> Await("regexNew", frame) /\ UNCHANGED configVars
                [] answer = "accept" ->
                     /\ configChanged' = TRUE
                     /\ config' = WithCategories(config, t,
                                      AddCategory(Categories(config, t), t.Category, in))
                     /\ Await("formulaNew", [ frame EXCEPT !.regex = in ])
    /\ Typed
    /\ UNCHANGED << diskVars, fileVars >>

\* Lines 468-476: a line typed at 'Regex to add to <existing category>'; on
\* return the regex is added and the saved formula, if any, validated.
AnswerRegexAdd ==
    /\ pc = "regexAdd"
    /\ \E in \in RegexInputs :
          LET t == frame.extendedTransaction
              answer == RegexAnswer(in, t.Description)
              cfg == IF in # ""
                     THEN WithCategories(config, t,
                              AddPattern(Categories(config, t), t.Category, in))
                     ELSE config
              f == FormulaOf(Categories(cfg, t), t.Category)
              fr == [ frame EXCEPT !.regex = in ]
          IN  CASE answer = "throw" -> Crash("regexThrew") /\ UNCHANGED configVars
                [] answer = "again" -> Await("regexAdd", frame) /\ UNCHANGED configVars
                [] answer = "accept" ->
                     /\ configChanged' = (configChanged \/ in # "")
                     /\ config' = cfg
                     /\ IF f # "" THEN Validate(fr, f) ELSE Return(fr)
    /\ Typed
    /\ UNCHANGED << diskVars, fileVars >>

\* getReimbursementForTransaction, lines 318-322 and 324-328: a line typed
\* at 'Reimbursement for <new category>'.
AnswerFormula ==
    /\ pc = "formulaNew"
    /\ \E in \in FormulaInputs :
          IF in = "" THEN Return(frame)
          ELSE IF ~Compiles(in) THEN Crash("compileThrew")
          ELSE Await("formulaConfirm", [ frame EXCEPT !.formula = in ])
    /\ Typed
    /\ UNCHANGED << diskVars, configVars, fileVars >>

\* Lines 323 and 459-461: the answer to 'Reimbursed $<value> (y/n)' for a
\* new category.
ConfirmFormula ==
    /\ pc = "formulaConfirm"
    /\ \E answer \in YesNoInputs :
          LET fr == [ frame EXCEPT !.extendedTransaction.Reimbursed = frame.formula ]
          IN  CASE answer = "y" ->
                     IF frame.regex # "" THEN Await("saveFormula", fr) ELSE Return(fr)
                [] answer = "n" -> Await("formulaNew", frame)
                [] OTHER -> Await("formulaConfirm", frame)
    /\ Typed
    /\ UNCHANGED << diskVars, configVars, fileVars >>

\* Lines 461-463: the answer to 'Save formula to <category> (y/n)'.
SaveFormula ==
    /\ pc = "saveFormula"
    /\ \E answer \in YesNoInputs :
          LET t == frame.extendedTransaction IN
          CASE answer = "y" ->
                 /\ config' = WithCategories(config, t,
                                  SetFormula(Categories(config, t), t.Category, frame.formula))
                 /\ UNCHANGED configChanged
                 /\ Return(frame)
            [] answer = "n" -> Return(frame) /\ UNCHANGED configVars
            [] OTHER -> Await("saveFormula", frame) /\ UNCHANGED configVars
    /\ Typed
    /\ UNCHANGED << diskVars, fileVars >>

\* Lines 335 and 342: the answer to 'Reimbursed $<value> (y/n)' for a saved
\* formula.
ConfirmSaved ==
    /\ pc = "validateConfirm"
    /\ \E answer \in YesNoInputs :
          CASE answer = "y" ->
                 Return([ frame EXCEPT !.extendedTransaction.Reimbursed = frame.formula ])
            [] answer = "n" -> Await("validateFormula", frame)
            [] OTHER -> Await("validateConfirm", frame)
    /\ Typed
    /\ UNCHANGED << diskVars, configVars, fileVars >>

\* Lines 336-340: a line typed at 'Reimbursement for <category>' after the
\* computed value was rejected.
AnswerValidateFormula ==
    /\ pc = "validateFormula"
    /\ \E in \in FormulaInputs :
          IF in = "" THEN Return(frame)
          ELSE IF ~Compiles(in) THEN Crash("compileThrew")
          ELSE Await("validateConfirm", [ frame EXCEPT !.formula = in ])
    /\ Typed
    /\ UNCHANGED << diskVars, configVars, fileVars >>

(* ----------------------------- end of run ------------------------------ *)

\* RowsAdded looking at the debit count alone.
RowsAddedDebitsOnly == debitsAdded # 0

\* Line 611: context.debitsAdded || context.creditsAdded
RowsAdded == debitsAdded # 0 \/ creditsAdded # 0

\* Lines 611-616: the workbook and the configuration are written.
Finish ==
    /\ pc = "file"
    /\ fileIdx > Len(files)
    /\ wroteWorkbook' = RowsAdded
    /\ diskWorkbook' = IF RowsAdded THEN workbook ELSE diskWorkbook
    /\ wroteConfig' = configChanged
    /\ diskConfig' = IF configChanged THEN config ELSE diskConfig
    /\ pc' = "done"
    /\ UNCHANGED << files, runNo, configVars, ledgerVars, intlTransactionFees, fileVars,
                    rowIdx, flushIdx, frame, answers >>

(* ----------------------------- processSigInt ---------------------------- *)

\* The points where processSigInt awaits a line, and where it has exited.
SigIntPoints == { "sigintWorkbook", "sigintConfig", "exited" }

\* SigIntPoint that offers both saves whatever was added or changed.
SigIntPointAlways(fromStart) ==
    IF fromStart THEN "sigintWorkbook" ELSE "sigintConfig"

\* Lines 250, 256 and 261: the next point of processSigInt, from its start or
\* from the end of its workbook branch.
SigIntPoint(fromStart) ==
    IF fromStart /\ RowsAdded THEN "sigintWorkbook"
    ELSE IF configChanged THEN "sigintConfig"
    ELSE "exited"

\* processSigInt touches nothing but the files on disk.
SigIntFrame ==
    UNCHANGED << files, runNo, wroteWorkbook, wroteConfig, answers, configVars,
                 ledgerVars, intlTransactionFees, fileVars, rowIdx, flushIdx, frame >>

\* Lines 248-250 and 274: the 'SIGINT' event of the readline of a pending
\* prompt (the prompts of processSigInt included) closes that readline, whose
\* question is never answered, and starts processSigInt.
Interrupt ==
    /\ pc \in Prompts \cup { "sigintWorkbook", "sigintConfig" }
    /\ pc' = SigIntPoint(TRUE)
    /\ UNCHANGED << diskConfig, diskWorkbook >>
    /\ SigIntFrame

\* Lines 251-254: a line typed at 'Save workbook (y/n)> '.
AnswerSaveWorkbook ==
    /\ pc = "sigintWorkbook"
    /\ \E answer \in YesNoInputs :
          /\ pc' = IF answer \in { "y", "n" } THEN SigIntPoint(FALSE) ELSE pc
          /\ diskWorkbook' = IF answer = "y" THEN workbook ELSE diskWorkbook
    /\ UNCHANGED diskConfig
    /\ SigIntFrame

\* Lines 257-261: a line typed at 'Save new categories (y/n)> '.
AnswerSaveConfig ==
    /\ pc = "sigintConfig"
    /\ \E answer \in YesNoInputs :
          /\ pc' = IF answer \in { "y", "n" } THEN "exited" ELSE pc
          /\ diskConfig' = IF answer = "y" THEN config ELSE diskConfig
    /\ UNCHANGED diskWorkbook
    /\ SigIntFrame

\* The program is run a second time over the same statement files, from the
\* workbook and configuration the first run left on disk.
Rerun ==
    /\ pc = "done"
    /\ runNo = 1
    /\ wroteWorkbook
    /\ runNo' = 2
    /\ UNCHANGED << files, diskConfig, diskWorkbook >>
    /\ LET c == Startup(diskConfig, diskWorkbook) IN
          /\ config' = c.config
          /\ configChanged' = c.configChanged
          /\ workbook' = c.workbook
          /\ debitsAdded' = c.debitsAdded
          /\ creditsAdded' = c.creditsAdded
          /\ existingTransactions' = c.existingTransactions
          /\ dateTransactions' = c.dateTransactions
          /\ intlTransactionFees' = c.intlTransactionFees
          /\ currentDate' = c.currentDate
          /\ fileIdx' = 1
          /\ sheetData' = << >>
          /\ rowIdx' = 0
          /\ flushIdx' = 0
          /\ pc' = "file"
          /\ frame' = NoFrame
          /\ wroteWorkbook' = FALSE
          /\ wroteConfig' = FALSE
          /\ answers' = 0

Next ==
    \/ StartFile
    \/ EndOfFile
    \/ CheckDate
    \/ FlushFee
    \/ FlushDone
    \/ SkipDuplicate
    \/ WithholdFee
    \/ Categorise
    \/ AnswerIntl
    \/ AnswerMultiple
    \/ AnswerCategory
    \/ AnswerRegexNew
    \/ AnswerRegexAdd
    \/ AnswerFormula
    \/ ConfirmFormula
    \/ SaveFormula
    \/ ConfirmSaved
    \/ AnswerValidateFormula
    \/ Finish
    \/ Rerun
    \/ Interrupt
    \/ AnswerSaveWorkbook
    \/ AnswerSaveConfig

Spec == Init /\ [][Next]_vars

(* ------------------------------- claims -------------------------------- *)

\* The transactions of every row of the workbook.
LedgerRows == LoadedTransactions(workbook)

\* The row the latest write appended for transaction t.
LastRow(t) ==
    IF t.metadata.isDebit
    THEN LoadedDebit(workbook.Debit[Len(workbook.Debit)], SheetRow(Len(workbook.Debit)))
    ELSE LoadedCredit(workbook.Credit[Len(workbook.Credit)])

\* The names of the categories with at least one pattern matching.
MatchingCategories(cats, description) ==
    { cats[i].name : i \in { j \in DOMAIN cats : Hits(cats[j], description) > 0 } }

\* The candidates the registry at the call of the latest categorisation
\* gives for its transaction.
EntryCandidates ==
    MatchingCategories(Categories(frame.entry[1], frame.extendedTransaction),
                       frame.extendedTransaction.Description)

\* The statement rows the run has not reached yet: the rest of the current
\* file and the files after it.
RemainingRows ==
    { sheetData[i] : i \in { j \in DOMAIN sheetData : j >= rowIdx } }
    \cup UNION { Range(files[k]) : k \in { j \in DOMAIN files : j > fileIdx } }

\* C1 - Dedup key uniqueness: in every reachable state no two rows of the
\* ledger share the identity key (date, amount, description).
C1_DedupKeyUniqueness ==
    \A i, j \in DOMAIN LedgerRows :
        i # j => transactionId(LedgerRows[i]) # transactionId(LedgerRows[j])

\* C2 - Idempotence: the second run over the same statement files, started
\* from the ledger the first run persisted, appends no row.
C2_Idempotence ==
    runNo = 2 => debitsAdded = 0 /\ creditsAdded = 0

\* A second run has completed over a ledger to which the first run added
\* rows, a flushed fee among them.
C2_Witness ==
    /\ runNo = 2
    /\ pc = "done"
    /\ Len(LedgerRows) >= 2
    /\ \E i \in DOMAIN LedgerRows : LedgerRows[i].Description = FeeText

\* C3 - Ordering invariant: when a withheld fee of date d is flushed, no
\* non-fee statement row of date d that will still be written is ahead.
C3_OrderingInvariant ==
    (pc = "flush" /\ flushIdx <= Len(intlTransactionFees)) =>
        \A t \in RemainingRows :
            (~IsIntlTransactionFee(t.Description)
             /\ t.Date = intlTransactionFees[flushIdx].Date)
            => transactionId(t) \in existingTransactions

\* C4 - End-of-input flush: at normal completion no fee is still withheld.
C4_EndOfInputFlush ==
    pc = "done" => intlTransactionFees = << >>

\* C5 - Single-match auto-resolution: a fresh non-fee transaction for which
\* exactly one category has a matching pattern is at no category-selection
\* prompt.
C5_SingleMatchAutoResolution ==
    (pc \in { "multiPrompt", "categoryPrompt" } /\ ~frame.passedExtendedTransaction)
    => Cardinality(MatchingCategories(
                       Categories(config, frame.extendedTransaction),
                       frame.extendedTransaction.Description)) # 1

\* The prompts of a categorisation that creates a category.
NewCategoryRoute ==
    /\ frame.route = "zero"
    /\ frame.extendedTransaction.Category \notin
           Names(Categories(frame.entry[1], frame.extendedTransaction))

\* C6 - Zero match, new category: when the user has typed a name N that is
\* not in the namespace and a pattern P that matches, then once
\* addTransaction has returned the namespace holds N with the pattern list
\* <<P>>, the dirty flag is set and the transaction is the last row of its
\* sheet, with category N.
C6_ZeroMatchNewCategory ==
    (frame.returned /\ NewCategoryRoute /\ frame.regex # "") =>
        LET t == frame.extendedTransaction
            cats == Categories(config, t)
        IN  /\ t.Category \in Names(cats)
            /\ Lookup(cats, t.Category).matches = << frame.regex >>
            /\ configChanged
            /\ LastRow(t).Category = t.Category
            /\ transactionId(LastRow(t)) = transactionId(t)

\* A fresh transaction that matched no category was written under a new
\* category created with a pattern.
C6_Witness ==
    /\ frame.returned
    /\ NewCategoryRoute
    /\ ~frame.passedExtendedTransaction
    /\ EntryCandidates = {}
    /\ frame.regex = "^COFFEE"
    /\ frame.extendedTransaction.Category = "Groceries"

\* C7 - Fee attachment: a flushed fee for which the user typed a category of
\* the transactions of its date is written with exactly that category, and
\* the registry and the dirty flag are as they were when the flush of that
\* fee began.
C7_FeeAttachment ==
    (frame.passedExtendedTransaction /\ frame.route = "attached") =>
        /\ frame.extendedTransaction.Category = frame.input
        /\ << config, configChanged >> = frame.entry
        /\ frame.returned =>
              /\ LastRow(frame.extendedTransaction).Category = frame.input
              /\ transactionId(LastRow(frame.extendedTransaction))
                     = transactionId(frame.extendedTransaction)

\* A fee was written with the category typed at the attach prompt, after
\* the saved formula of that category was confirmed.
C7_Witness ==
    /\ frame.passedExtendedTransaction
    /\ frame.route = "attached"
    /\ frame.returned
    /\ frame.input = "Groceries"
    /\ frame.extendedTransaction.Reimbursed # ""

\* The latest categorisation is of a fresh transaction that matched two or
\* more categories.
MultipleMatched ==
    /\ ~frame.passedExtendedTransaction
    /\ frame.extendedTransaction # NoTransaction
    /\ Cardinality(EntryCandidates) >= 2

\* C8 - Multiple matches: the prompt is shown again exactly while the line
\* typed is neither blank nor a listed candidate; a listed candidate is
\* assigned with the registry and the dirty flag unchanged; a blank line
\* continues in the zero-match path.
C8_MultipleMatches ==
    MultipleMatched =>
        /\ pc = "multiPrompt" =>
              \/ frame.input = NoInput
              \/ frame.input # "" /\ frame.input \notin EntryCandidates
        /\ (frame.input # NoInput /\ frame.input # "" /\ frame.input \in EntryCandidates) =>
              /\ frame.route = "chosen"
              /\ frame.extendedTransaction.Category = frame.input
              /\ << config, configChanged >> = frame.entry
              /\ frame.returned => LastRow(frame.extendedTransaction).Category = frame.input
        /\ frame.route = "chosen" => frame.input \in EntryCandidates
        /\ frame.input = "" => frame.route = "zero"

\* One of two listed candidates was chosen and the transaction written.
C8_Witness ==
    /\ MultipleMatched
    /\ frame.route = "chosen"
    /\ frame.input = "Pharmacy"
    /\ frame.returned

\* C9 - Persistence on normal completion: the ledger is written exactly
\* when a row was appended, the configuration exactly when the dirty flag
\* is set, and a run that appended nothing writes neither.
C9_Persistence ==
    pc = "done" =>
        /\ wroteWorkbook <=> (debitsAdded + creditsAdded > 0)
        /\ wroteConfig <=> configChanged
        /\ wroteWorkbook => diskWorkbook = workbook
        /\ wroteConfig => diskConfig = config
        /\ (debitsAdded + creditsAdded = 0) => (~wroteWorkbook /\ ~wroteConfig)

\* A run that appended only credit rows and changed the registry has
\* written both files.
C9_Witness ==
    /\ pc = "done"
    /\ creditsAdded > 0
    /\ debitsAdded = 0
    /\ wroteWorkbook
    /\ wroteConfig

\* C10 - Empty category name is rejected: no category with an empty name is
\* in the registry and no row of the ledger has an empty category.
C10_EmptyCategoryRejected ==
    /\ "" \notin Names(config.debitCategories) \cup Names(config.creditCategories)
    /\ \A i \in DOMAIN LedgerRows : LedgerRows[i].Category # ""

\* C11 - Malformed input is recoverable: a pattern or formula text that the
\* compiler rejects never ends the run; the prompt is asked again.
C11_MalformedInputRecoverable ==
    pc \notin { "regexThrew", "compileThrew" }

\* The number of transactions of rows with the identity key k.
KeyCount(rows, k) ==
    Cardinality({ i \in DOMAIN rows : transactionId(rows[i]) = k })

\* The positions of the withheld fees that no flush has written yet.
StillWithheld ==
    { i \in DOMAIN intlTransactionFees : flushIdx = 0 \/ i >= flushIdx }

\* The fees of the running flush that were written.
Flushed ==
    IF flushIdx = 0 THEN << >> ELSE SubSeq(intlTransactionFees, 1, flushIdx - 1)

\* No row of the workbook wb is a fee that is still withheld: the rows with
\* the key of such a fee are those of the fees already flushed.
NoWithheldFeeIn(wb) ==
    \A i \in StillWithheld :
        LET k == transactionId(intlTransactionFees[i])
        IN  KeyCount(LoadedTransactions(wb), k) = KeyCount(Flushed, k)

\* C12 - Interruption is a checkpoint: an interrupt at a prompt offers to
\* save the ledger exactly when a row was appended and the configuration
\* exactly when the dirty flag is set, then exits; from the interrupt on no
\* row is appended, what is saved is the ledger and registry in memory, and
\* no fee that is still withheld is a row of it.
C12_InterruptionCheckpoint ==
    [][ /\ pc' = "sigintWorkbook" => RowsAdded
        /\ pc' = "sigintConfig" => configChanged
        /\ (pc \in Prompts /\ pc' \in { "sigintConfig", "exited" }) => ~RowsAdded
        /\ (pc \in Prompts \cup { "sigintWorkbook" } /\ pc' = "exited") => ~configChanged
        /\ pc \in SigIntPoints =>
              /\ pc' \in SigIntPoints
              /\ UNCHANGED << ledgerVars, intlTransactionFees, flushIdx, configVars >>
              /\ diskWorkbook' \in { diskWorkbook, workbook }
              /\ diskConfig' \in { diskConfig, config }
              /\ diskWorkbook' # diskWorkbook => pc = "sigintWorkbook"
              /\ diskConfig' # diskConfig => pc = "sigintConfig"
        /\ pc' \in SigIntPoints => NoWithheldFeeIn(workbook)'
        /\ pc # "exited"
      ]_vars

\* An interrupted run that appended a row, changed the registry and held a
\* withheld fee has saved both files and exited.
C12_Witness ==
    /\ pc = "exited"
    /\ RowsAdded
    /\ configChanged
    /\ intlTransactionFees # << >>
    /\ StillWithheld # {}
    /\ diskWorkbook = workbook
    /\ diskConfig = config

\* C13 - Blank answer at fee flush: a fee whose attach prompt was answered
\* with a blank line is resolved as an ordinary transaction, its description
\* matched against the patterns of the registry: it reaches the zero-match
\* path only when no category matches, and with exactly one matching
\* category it takes that category.
C13_BlankAtFeeFlush ==
    (frame.passedExtendedTransaction /\ frame.input = "") =>
        /\ frame.route = "zero" => EntryCandidates = {}
        /\ Cardinality(EntryCandidates) = 1 =>
              /\ frame.route = "single"
              /\ frame.extendedTransaction.Category \in EntryCandidates

\* C14 - Fee deferral: a fresh fee marker whose key is not in the dedup
\* cache is appended to the withheld set with an empty category, with no
\* prompt and no pattern evaluated, and the ledger, the appended-row counts,
\* the identity set and the date index stay as they were; a fee row is only
\* ever written by a flush.
C14_FeeDeferral ==
    [][ /\ ( /\ pc = "dedup"
             /\ Transaction.Description = FeeText
             /\ transactionId(Transaction) \notin existingTransactions ) =>
              /\ Len(intlTransactionFees') = Len(intlTransactionFees) + 1
              /\ SubSeq(intlTransactionFees', 1, Len(intlTransactionFees)) = intlTransactionFees
              /\ LET fee == intlTransactionFees'[Len(intlTransactionFees')]
                 IN  /\ transactionId(fee) = transactionId(Transaction)
                     /\ fee.Category = ""
              /\ UNCHANGED << workbook, debitsAdded, creditsAdded, existingTransactions,
                              dateTransactions >>
              /\ pc' = "row"
              /\ UNCHANGED << frame, answers, configVars >>
        /\ ( /\ workbook' # workbook
             /\ frame'.extendedTransaction.Description = FeeText ) =>
              /\ pc = "flush" \/ frame.passedExtendedTransaction
              /\ pc' = "flush"
              /\ frame'.passedExtendedTransaction
      ]_vars

\* A fee was withheld while nothing has been written, cached or asked.
C14_Witness ==
    /\ pc = "row"
    /\ Len(intlTransactionFees) = 1
    /\ intlTransactionFees[1].Category = ""
    /\ rowIdx > 1
    /\ sheetData[rowIdx - 1].Description = FeeText
    /\ frame = NoFrame
    /\ answers = 0
    /\ workbook = diskWorkbook
    /\ ~RowsAdded

\* The input transaction the loop of run() handled before the one it is at:
\* the row before it in the file, or the last row of the file before.
PreviousTransaction ==
    IF rowIdx > 1 THEN sheetData[rowIdx - 1]
    ELSE LET before == SortByDate(files[fileIdx - 1]) IN before[Len(before)]

\* The loop is at a transaction whose date differs from the date of the
\* transaction before it, with fees withheld.
AtDateBoundary ==
    /\ pc = "row"
    /\ rowIdx >= 1
    /\ rowIdx <= Len(sheetData)
    /\ rowIdx > 1 \/ fileIdx > 1
    /\ Transaction.Date # PreviousTransaction.Date
    /\ intlTransactionFees # << >>

\* C15 - Date-boundary flush: when the next input transaction, in the same
\* file or the first of a later file, has a date other than the date tracked
\* so far, the withheld fees are flushed; each flushed fee is written once
\* and cached, and the withheld set is empty when the transaction reaches
\* the dedup check.
C15_DateBoundaryFlush ==
    [][ /\ AtDateBoundary => pc' = "flush"
        /\ (flushIdx > 0 /\ flushIdx' = flushIdx + 1) =>
              LET fee == intlTransactionFees[flushIdx]
                  k == transactionId(fee)
              IN  /\ Len(LedgerRows') = Len(LedgerRows) + 1
                  /\ KeyCount(LedgerRows', k) = KeyCount(LedgerRows, k) + 1
                  /\ k \in existingTransactions'
                  /\ intlTransactionFees'[flushIdx] \in Range(dateTransactions'[fee.Date])
        /\ (flushIdx > 0 /\ flushIdx' = flushIdx) => workbook' = workbook
        /\ (pc = "flush" /\ pc' = "dedup") =>
              /\ flushIdx > Len(intlTransactionFees)
              /\ intlTransactionFees' = << >>
      ]_vars

\* C16 - Dirty flag tracks mutation: until the run saves the registry, so
\* that config.json is still the registry loaded at startup, the registry in
\* memory differs from the loaded one exactly when configChanged is set.
C16_DirtyFlagTracksMutation ==
    pc \notin { "done", "exited" } => (configChanged <=> config # diskConfig)

\* A pattern was added to a category that the registry already had, and
\* nothing else changed.
C16_Witness ==
    /\ pc = "row"
    /\ configChanged
    /\ frame.returned
    /\ frame.regex # ""
    /\ frame.entry[1] = diskConfig
    /\ frame.extendedTransaction.Category
           \in Names(Categories(diskConfig, frame.extendedTransaction))
    /\ config # diskConfig

\* The transaction t is recorded as the row r: same identity key and category.
SameRecord(t, r) == transactionId(t) = transactionId(r) /\ t.Category = r.Category

\* C17 - Record exactly once: the identity set holds exactly the keys of
\* the rows of the ledger, and the date index holds each row of the ledger
\* once, in the bucket of its date, and nothing else.
C17_RecordExactlyOnce ==
    /\ existingTransactions = { transactionId(LedgerRows[i]) : i \in DOMAIN LedgerRows }
    /\ DOMAIN dateTransactions = { LedgerRows[i].Date : i \in DOMAIN LedgerRows }
    /\ \A i \in DOMAIN LedgerRows :
          LET r == LedgerRows[i]
              bucket == dateTransactions[r.Date]
          IN  /\ \E j \in DOMAIN bucket : SameRecord(bucket[j], r)
              /\ KeyCount(bucket, transactionId(r)) = KeyCount(LedgerRows, transactionId(r))
    /\ \A d \in DOMAIN dateTransactions :
          \A j \in DOMAIN dateTransactions[d] :
              LET t == dateTransactions[d][j]
              IN  /\ t.Date = d
                  /\ \E i \in DOMAIN LedgerRows : SameRecord(t, LedgerRows[i])
                  /\ KeyCount(dateTransactions[d], transactionId(t))
                         = KeyCount(LedgerRows, transactionId(t))

\* A ledger with a row loaded at startup and two rows appended in the
\* session, one of them a flushed fee, with two rows sharing a date.
C17_Witness ==
    /\ runNo = 1
    /\ diskWorkbook # createWorkbook
    /\ debitsAdded + creditsAdded = 2
    /\ \E d \in DOMAIN dateTransactions : Len(dateTransactions[d]) >= 2
    /\ \E i \in DOMAIN LedgerRows : LedgerRows[i].Description = FeeText
    /\ pc = "row"

\* The rows of the ledger that were loaded at startup, while the run has not
\* saved the workbook.
StartupRows == LoadedTransactions(diskWorkbook)

\* The candidates offered for the fee being flushed: the date-index bucket
\* of its date.
FlushCandidates == dateTransactions[frame.extendedTransaction.Date]

\* C18 - Date index is session-scoped (as stated): the candidates offered
\* when a fee is flushed are transactions categorised in the session, never
\* rows loaded from the existing ledger at startup.
C18_DateIndexSessionScoped ==
    pc = "intlPrompt" =>
        \A j \in DOMAIN FlushCandidates :
            \A i \in DOMAIN StartupRows : ~SameRecord(FlushCandidates[j], StartupRows[i])

\* C18 - as amended: the candidates offered when a fee is flushed are the
\* rows of the ledger with the fee's date, those loaded at startup as well
\* as those written in the session.
C18_DateIndexWholeLedger ==
    pc = "intlPrompt" =>
        LET d == frame.extendedTransaction.Date
            OfDate(r) == r.Date = d
        IN  /\ Len(FlushCandidates) = Len(SelectSeq(LedgerRows, OfDate))
            /\ \A i \in DOMAIN StartupRows :
                  StartupRows[i].Date = d =>
                      \E j \in DOMAIN FlushCandidates :
                          SameRecord(FlushCandidates[j], StartupRows[i])
            /\ \A j \in DOMAIN FlushCandidates :
                  \E i \in DOMAIN LedgerRows : SameRecord(FlushCandidates[j], LedgerRows[i])

\* A fee is offered a row loaded at startup and a transaction of the session.
C18_Witness ==
    /\ pc = "intlPrompt"
    /\ \E j \in DOMAIN FlushCandidates :
          \E i \in DOMAIN StartupRows : SameRecord(FlushCandidates[j], StartupRows[i])
    /\ Len(FlushCandidates) > Len(StartupRows)

\* The saved formula of the category of transaction t in the registry cfg.
SavedFormula(cfg, t) == FormulaOf(Categories(cfg, t), t.Category)

\* The awaits of validateReimbursementForTransaction.
ValidatePoints == { "validateConfirm", "validateFormula" }

\* C19 - Saved formula re-confirmed, never silently applied: a transaction
\* whose resolved category has a saved formula is written only from the
\* confirmation loop; its formula is empty until the user accepts the value
\* shown and is then the formula shown; a rejection leads to the prompt for
\* a new formula, where a blank line writes the transaction with no formula;
\* the loop leaves the registry as it was.
C19_SavedFormulaReconfirmed ==
    [][ /\ pc' \in ValidatePoints => frame'.extendedTransaction.Reimbursed = ""
        /\ (pc \notin ValidatePoints /\ pc' = "validateConfirm") =>
              /\ frame'.formula # ""
              /\ frame'.formula = SavedFormula(config', frame'.extendedTransaction)
        /\ (workbook' # workbook /\ SavedFormula(config, frame'.extendedTransaction) # "") =>
              pc \in ValidatePoints
        /\ (pc = "validateConfirm" /\ workbook' # workbook) =>
              /\ frame.formula # ""
              /\ frame'.extendedTransaction.Reimbursed = frame.formula
        /\ (pc = "validateConfirm" /\ workbook' = workbook /\ pc' \notin SigIntPoints) =>
              /\ pc' \in ValidatePoints
              /\ frame' = frame
        /\ (pc = "validateFormula" /\ workbook' # workbook) =>
              frame'.extendedTransaction.Reimbursed = ""
        /\ (pc = "validateFormula" /\ pc' = "validateConfirm") => frame'.formula # ""
        /\ pc \in ValidatePoints => UNCHANGED configVars
      ]_vars

\* The value of the saved formula was rejected, another formula typed and
\* accepted: the transaction carries the typed formula and the category
\* keeps the saved one.
C19_Witness ==
    /\ frame.returned
    /\ frame.route # "zero"
    /\ SavedFormula(config, frame.extendedTransaction) = "amount/2"
    /\ frame.extendedTransaction.Reimbursed = "amount"
    /\ frame.entry = << config, configChanged >>

\* The same-day transactions the flushed fee took its category from.
InheritedFrom ==
    { t \in Range(FlushCandidates) : t.Category = frame.extendedTransaction.Category }

\* C20 - Reimbursement on attached fees: when a flushed fee takes the
\* category of a same-day transaction, debit or credit, and that category
\* has a saved formula in the registry, the confirmation loop is run for
\* the fee.
C20_ReimbursementOnAttachedFees ==
    ( /\ frame.passedExtendedTransaction
      /\ frame.route = "attached"
      /\ \E t \in InheritedFrom : SavedFormula(config, t) # "" ) =>
        \/ pc \in ValidatePoints
        \/ frame.formula # ""

(* --------------------- the importer without categories ------------------ *)

\* transactionToRow written at origin { r: -1, c: 1 }: a new row with column
\* A empty and the date, amount and description in columns B..D.
transactionToRow(t) == << "", t.Date, t.Amount, t.Description >>

\* sheet_to_json of a sheet under the header row Category, Date, Amount,
\* Description: one object per data row.
sheet_to_json(sheet) ==
    [ i \in DOMAIN sheet |->
        [ Date |-> sheet[i][2], Amount |-> sheet[i][3], Description |-> sheet[i][4] ] ]

\* The rows of both sheets of a workbook, Debit first.
ImportedRows(wb) == sheet_to_json(wb.Debit) \o sheet_to_json(wb.Credit)

\* Lines 117-125: the identity keys of the rows of the output workbook.
ExistingKeys(wb) ==
    { transactionId(ImportedRows(wb)[i]) : i \in DOMAIN ImportedRows(wb) }

\* The output workbooks a run of the importer may start from.
ImporterWorkbooks ==
    { createWorkbook,
      [ Debit |-> << transactionToRow([ Date |-> 1, Amount |-> -5,
                                        Description |-> ShopText ]) >>,
        Credit |-> << >> ] }

\* The variables of the categorising program, which the importer has not.
ImporterIdle ==
    /\ config = [ debitCategories |-> << >>, creditCategories |-> << >> ]
    /\ diskConfig = config
    /\ configChanged = FALSE
    /\ dateTransactions = EmptyStore
    /\ intlTransactionFees = << >>
    /\ currentDate = Undefined
    /\ flushIdx = 0
    /\ frame = NoFrame
    /\ wroteConfig = FALSE
    /\ answers = 0

\* No step of the importer touches them.
ImporterUnused ==
    UNCHANGED << config, diskConfig, configChanged, dateTransactions,
                 intlTransactionFees, currentDate, flushIdx, frame, wroteConfig, answers >>

\* Lines 111-127: the state of run() before its loop over the files.
ImporterInit ==
    /\ files \in FileLists
    /\ diskWorkbook \in ImporterWorkbooks
    /\ runNo = 1
    /\ workbook = diskWorkbook
    /\ existingTransactions = ExistingKeys(diskWorkbook)
    /\ debitsAdded = 0
    /\ creditsAdded = 0
    /\ fileIdx = 1
    /\ sheetData = << >>
    /\ rowIdx = 0
    /\ pc = "importFile"
    /\ wroteWorkbook = FALSE
    /\ ImporterIdle

\* Lines 128-140: the next file is read and sorted.
ImportFile ==
    /\ pc = "importFile"
    /\ fileIdx <= Len(files)
    /\ sheetData' = SortByDate(files[fileIdx])
    /\ rowIdx' = 1
    /\ pc' = "importRow"
    /\ UNCHANGED << files, diskWorkbook, runNo, workbook, existingTransactions,
                    debitsAdded, creditsAdded, fileIdx, wroteWorkbook >>
    /\ ImporterUnused

\* Lines 142-150: a row whose key is not in existingTransactions is appended
\* to the sheet of its sign; existingTransactions is left as it was.
ImportAppend ==
    /\ pc = "importRow"
    /\ rowIdx <= Len(sheetData)
    /\ transactionId(Transaction) \notin existingTransactions
    /\ IF Transaction.Amount < 0
       THEN /\ workbook' = [ workbook EXCEPT !.Debit = Append(@, transactionToRow(Transaction)) ]
            /\ debitsAdded' = debitsAdded + 1
            /\ UNCHANGED creditsAdded
       ELSE /\ workbook' = [ workbook EXCEPT !.Credit = Append(@, transactionToRow(Transaction)) ]
            /\ creditsAdded' = creditsAdded + 1
            /\ UNCHANGED debitsAdded
    /\ rowIdx' = rowIdx + 1
    /\ UNCHANGED << files, diskWorkbook, runNo, existingTransactions, fileIdx, sheetData,
                    pc, wroteWorkbook >>
    /\ ImporterUnused

\* Line 142: a row whose key is in existingTransactions is passed over.
ImportSkip ==
    /\ pc = "importRow"
    /\ rowIdx <= Len(sheetData)
    /\ transactionId(Transaction) \in existingTransactions
    /\ rowIdx' = rowIdx + 1
    /\ UNCHANGED << files, diskWorkbook, runNo, workbook, existingTransactions,
                    debitsAdded, creditsAdded, fileIdx, sheetData, pc, wroteWorkbook >>
    /\ ImporterUnused

\* The rows of the file are exhausted.
ImportEndOfFile ==
    /\ pc = "importRow"
    /\ rowIdx > Len(sheetData)
    /\ fileIdx' = fileIdx + 1
    /\ pc' = "importFile"
    /\ UNCHANGED << files, diskWorkbook, runNo, workbook, existingTransactions,
                    debitsAdded, creditsAdded, sheetData, rowIdx, wroteWorkbook >>
    /\ ImporterUnused

\* Lines 153-155: the workbook is written when a row was added.
ImportFinish ==
    /\ pc = "importFile"
    /\ fileIdx > Len(files)
    /\ wroteWorkbook' = RowsAdded
    /\ diskWorkbook' = IF RowsAdded THEN workbook ELSE diskWorkbook
    /\ pc' = "importDone"
    /\ UNCHANGED << files, runNo, workbook, existingTransactions, debitsAdded,
                    creditsAdded, fileIdx, sheetData, rowIdx >>
    /\ ImporterUnused

\* The importer is run a second time over the same files, from the workbook
\* the first run left on disk.
ImportAgain ==
    /\ pc = "importDone"
    /\ runNo = 1
    /\ runNo' = 2
    /\ workbook' = diskWorkbook
    /\ existingTransactions' = ExistingKeys(diskWorkbook)
    /\ debitsAdded' = 0
    /\ creditsAdded' = 0
    /\ fileIdx' = 1
    /\ sheetData' = << >>
    /\ rowIdx' = 0
    /\ pc' = "importFile"
    /\ wroteWorkbook' = FALSE
    /\ UNCHANGED << files, diskWorkbook >>
    /\ ImporterUnused

ImporterNext ==
    \/ ImportFile
    \/ ImportAppend
    \/ ImportSkip
    \/ ImportEndOfFile
    \/ ImportFinish
    \/ ImportAgain

ImporterSpec == ImporterInit /\ [][ImporterNext]_vars

\* C21 - Dedup in the plain importer: an input transaction is appended only
\* if its identity key is not in the ledger, and of two input transactions
\* with the same date, amount and description only the first is appended:
\* no two rows of the ledger have the same key.
C21_ImporterDedup ==
    \A i, j \in DOMAIN ImportedRows(workbook) :
        transactionId(ImportedRows(workbook)[i]) = transactionId(ImportedRows(workbook)[j])
            => i = j

\* C22 - The precondition abort is unreachable: categoriseTransaction is
\* called with an extended transaction only for a fee of the withheld set
\* that is marked as a fee and has no category yet, so the exception of
\* line 374 is never thrown.
C22_PreconditionAbortUnreachable ==
    /\ pc # "preconditionThrew"
    /\ (pc = "flush" /\ flushIdx <= Len(intlTransactionFees)) =>
          /\ intlTransactionFees[flushIdx].metadata.isIntlTransactionFee
          /\ intlTransactionFees[flushIdx].Category = ""
    /\ frame.passedExtendedTransaction =>
          /\ frame.extendedTransaction.metadata.isIntlTransactionFee
          /\ ~frame.returned =>
                /\ flushIdx \in DOMAIN intlTransactionFees
                /\ intlTransactionFees[flushIdx].Category = ""
                /\ transactionId(frame.extendedTransaction)
                       = transactionId(intlTransactionFees[flushIdx])

\* A second flush is about to call categoriseTransaction after an earlier
\* flush wrote its fee and cleared the set.
C22_Witness ==
    /\ pc = "flush"
    /\ flushIdx = 1
    /\ Len(intlTransactionFees) >= 1
    /\ \E i \in DOMAIN LedgerRows : LedgerRows[i].Description = FeeText
    /\ debitsAdded > 0

\* The program is inside the loop over the rows of a file, past the date
\* check of lines 596-605: at the dedup check, or at a prompt of the
\* categorisation of the row.
AfterDateCheck ==
    \/ pc = "dedup"
    \/ pc \in Prompts /\ ~frame.passedExtendedTransaction

\* C23 - Withheld fees belong to the current date: past the date check of
\* the loop, every withheld fee has the date the loop tracks, for any number
\* of files and any dates, the date 0 included.
C23_WithheldFeesOfCurrentDate ==
    AfterDateCheck =>
        \A i \in DOMAIN intlTransactionFees : intlTransactionFees[i].Date = currentDate

\* The category of the transaction the latest categorisation wrote is a key
\* of the namespace of its sign.
WrittenCategoryRegistered ==
    frame.extendedTransaction.Category
        \in Names(Categories(config, frame.extendedTransaction))

\* The transactions recorded for the date of the fee just written, the fee
\* itself, which is the last of them, left out.
RecordedBefore ==
    LET bucket == dateTransactions[frame.extendedTransaction.Date]
    IN  { bucket[j] : j \in 1..(Len(bucket) - 1) }

\* C24 - Written categories exist in the registry (as stated): every
\* transaction written in the session, flushed fees included, has a
\* category that is a key of the registry namespace of its sign.
C24_WrittenCategoriesRegistered ==
    frame.returned => WrittenCategoryRegistered

\* C24 - as amended: every transaction written in the session has a
\* category that is a key of the registry namespace of its sign, except a
\* fee attached at the flush prompt, which has the category of a transaction
\* recorded for its date, with the registry left as it was.
C24_WrittenCategoriesRegisteredOrAttached ==
    frame.returned =>
        IF frame.route = "attached"
        THEN /\ \E t \in RecordedBefore :
                   t.Category = frame.extendedTransaction.Category
             /\ frame.entry[1] = config
        ELSE WrittenCategoryRegistered

\* A credit was written under a category created for it, and a fee was
\* attached to a category its namespace does not have.
C24_Witness ==
    /\ frame.returned
    /\ frame.route = "attached"
    /\ ~WrittenCategoryRegistered
    /\ creditsAdded > 0
    /\ config.creditCategories # diskConfig.creditCategories

====
